---- MODULE Spec2Model ----
(***************************************************************************)
(* Task trainers of the continual-learning repository:                     *)
(*   - LatGMTaskTrainer (src/trainers/lat_gm_task_trainer.py)              *)
(*   - EWCTaskTrainer   (src/trainers/ewc_task_trainer.py)                 *)
(*                                                                         *)
(* Tensors live in a heap (`tensors`): a storage id maps to the vector it  *)
(* holds.  Trainer fields (weights_prev, fisher, mse_grad, the optimizers' *)
(* parameter groups) hold storage ids, so that a copy and an alias are     *)
(* different things.  Norms and thresholds are integers in units of 1.0;   *)
(* the 1e-6 of clip_grad_norm_ is neglected.  The data of a task is a      *)
(* record: the gradient norms its batches can produce (grad_norms) and the *)
(* per-parameter gradient the importance estimators see (sample_grads).    *)
(***************************************************************************)
EXTENDS Integers, Sequences, FiniteSets, TLC

VARIABLES
    task_idx,         \* position of the trainer's task in the task sequence
    config,           \* config.hp, fixed at construction
    pc,               \* "init" (constructed, hook not run), "ready", "failed", "crashed"
    tensors,          \* heap: storage id -> vector
    optim,            \* optimizer name -> storage id of the parameter group it owns
    learned_classes,  \* classes of the tasks strictly before task_idx
    seen_classes,     \* classes of the tasks up to task_idx
    weights_prev,     \* storage id of the snapshot, or NoTensor
    fisher,           \* storage id of the Fisher vector, or NoTensor
    mse_grad,         \* storage id of the MAS vector, or NoTensor
    num_iters_done,   \* batches processed (owned by the training loop)
    num_epochs_done,  \* epochs finished (owned by the training loop)
    train_dataloader, \* the data of the task: what its batches make of the gradients
    batch_log         \* what the last train_on_batch call did

vars == <<task_idx, config, pc, tensors, optim, learned_classes, seen_classes,
          weights_prev, fisher, mse_grad, num_iters_done, num_epochs_done,
          train_dataloader, batch_log>>

----------------------------------------------------------------------------
(* Bounds *)

MaxTask == 1
ClassesPerTask == 2
MaxGanEpochs == 1
MaxDiscrSteps == 2
MaxDistill == 2
MaxClip == 2
MaxGrad == 2
MaxIters == 3
MaxSampleGrad == 1
BodySize == 2
HeadSize == 1
KeepDen == 4

----------------------------------------------------------------------------
(* Names *)

Modules == {"embedder", "generator", "discriminator", "classifier"}

NoTensor == <<"none", "none">>

\* main_trainer.class_splits: the classes of each task
class_splits == [i \in 0..MaxTask |-> (i * ClassesPerTask)..(i * ClassesPerTask + ClassesPerTask - 1)]

\* np.unique(flatten(class_splits[:n]))
classes_before(n) == UNION {class_splits[i] : i \in {j \in 0..MaxTask : j < n}}

Min(a, b) == IF a < b THEN a ELSE b

----------------------------------------------------------------------------
(* Tensor primitives *)

\* torch.cat([p.data.view(-1) for p in ...]): a NEW storage `dst` holding the
\* concatenation of the storages `srcs` (a sequence of storage ids)
RECURSIVE concat(_, _)
concat(heap, srcs) ==
    IF srcs = <<>> THEN <<>> ELSE heap[Head(srcs)] \o concat(heap, Tail(srcs))

\* variant: the snapshot is the view p.data.view(-1) itself, no copy made
torch_cat_view(heap, srcs, dst) == [heap |-> heap, ref |-> Head(srcs)]

torch_cat(heap, srcs, dst) ==
    [heap |-> (dst :> concat(heap, srcs)) @@ heap, ref |-> dst]

\* the importance estimators: one entry per flattened parameter of the model
\* they are given (the storages srcs), the square of the gradient the data
\* gives that parameter
compute_diagonal_fisher(heap, srcs, dataloader) ==
    [i \in 1..Len(concat(heap, srcs)) |-> dataloader.sample_grads[i] * dataloader.sample_grads[i]]

compute_mse_grad(heap, srcs, dataloader) ==
    [i \in 1..Len(concat(heap, srcs)) |-> dataloader.sample_grads[i] * dataloader.sample_grads[i]]

----------------------------------------------------------------------------
(* LatGMTaskTrainer: construction *)

GM(m) == <<"model", m>>

PREV(m) == <<"prev_model", m>>

\* the order in which the LatGM model's parameters are flattened
LatGMOrder == <<GM("embedder"), GM("generator"), GM("discriminator"), GM("classifier")>>

\* the parameter values the model arrives with (fresh, or trained on the
\* tasks before)
InitTensors == [id \in {GM(m) : m \in Modules} |-> <<0>>]

\* grad_clipping: a threshold for some of the sub-networks, or for none
ClipConfigs ==
    {[m \in S |-> t] : S \in {{}, {"generator"}, {"discriminator", "classifier"}},
                       t \in 1..MaxClip}

\* two families of runs: every schedule with unit gradients and no clipping,
\* and every clipping configuration with every gradient norm on one schedule
ScheduleConfigs ==
    [reg_strategy : {"ewc", "mas", "l2"},
     num_gan_epochs : 0..MaxGanEpochs,
     num_discr_steps_per_gen_step : 1..MaxDiscrSteps,
     distill_batch_size : 0..MaxDistill,
     grad_clipping : {<<>>},
     reset_head_before_each_task : BOOLEAN]

ClippingConfigs ==
    [reg_strategy : {"ewc"},
     num_gan_epochs : {1},
     num_discr_steps_per_gen_step : {1},
     distill_batch_size : {MaxDistill},
     grad_clipping : ClipConfigs,
     reset_head_before_each_task : {FALSE}]

GMSampleGrads == [i \in 1..Cardinality(Modules) |-> 1]

GMRuns ==
    (ScheduleConfigs \X {[grad_norms |-> {1}, sample_grads |-> GMSampleGrads]})
    \cup (ClippingConfigs \X {[grad_norms |-> 1..MaxGrad, sample_grads |-> GMSampleGrads]})

\* variant: the generator's parameter group is taken from the teacher
get_parameters_teacher(name) ==
    CASE name = "generator" -> PREV("generator")
      [] name = "discriminator" -> GM("discriminator")
      [] name = "classifier" -> GM("classifier")
      [] name = "embedder" -> GM("embedder")

get_parameters(name) ==
    CASE name = "generator" -> GM("generator")
      [] name = "discriminator" -> GM("discriminator")
      [] name = "classifier" -> GM("classifier")
      [] name = "embedder" -> GM("embedder")

construct_optimizer == [name \in Modules |-> get_parameters(name)]

\* TaskTrainer.get_previous_trainer(): none for the first task
has_previous_trainer == task_idx > 0

\* LatGM.reset_discriminator(): both heads of the discriminator start afresh
reset_discriminator(heap) ==
    [heap EXCEPT ![GM("discriminator")] = <<1>>, ![GM("classifier")] = <<1>>]

\* prev_model = BaseModel(...); prev_model.load_state_dict(deepcopy(model.state_dict()))
load_prev_model(heap) ==
    [id \in {PREV(m) : m \in Modules} |-> heap[GM(id[2])]] @@ heap

NoBatch ==
    [iter |-> -1, gan |-> FALSE, calls |-> <<>>,
     distill |-> [outcome |-> "not_called", num_samples |-> 0],
     before |-> InitTensors]

InitGM ==
    /\ task_idx \in 0..MaxTask
    /\ \E run \in GMRuns : config = run[1] /\ train_dataloader = run[2]
    /\ pc = "init"
    /\ tensors = InitTensors
    /\ optim = construct_optimizer
    /\ learned_classes = {}
    /\ seen_classes = {}
    /\ weights_prev = NoTensor
    /\ fisher = NoTensor
    /\ mse_grad = NoTensor
    /\ num_iters_done = 0
    /\ num_epochs_done = 0
    /\ batch_log = NoBatch

\* variant: a strategy name that is not 'mas' is taken to be 'ewc'
select_importance_unchecked(strategy, heap) ==
    IF strategy = "mas"
    THEN [raised |-> FALSE, field |-> "mse_grad",
          value |-> compute_mse_grad(heap, LatGMOrder, train_dataloader)]
    ELSE [raised |-> FALSE, field |-> "fisher",
          value |-> compute_diagonal_fisher(heap, LatGMOrder, train_dataloader)]

\* the choice of the importance vector: the field stored and its value, or
\* the NotImplementedError
select_importance(strategy, heap) ==
    IF strategy = "mas"
    THEN [raised |-> FALSE, field |-> "mse_grad",
          value |-> compute_mse_grad(heap, LatGMOrder, train_dataloader)]
    ELSE IF strategy = "ewc"
    THEN [raised |-> FALSE, field |-> "fisher",
          value |-> compute_diagonal_fisher(heap, LatGMOrder, train_dataloader)]
    ELSE [raised |-> TRUE, field |-> "none", value |-> <<>>]

LatGM_after_init_hook ==
    /\ pc = "init"
    /\ LET heap1 == load_prev_model(tensors)
           heap2 == IF config.reset_head_before_each_task
                    THEN reset_discriminator(heap1) ELSE heap1
           snap == torch_cat(heap2, <<GM("embedder")>>, <<"trainer", "weights_prev">>)
       IN /\ learned_classes' = classes_before(task_idx)
          /\ seen_classes' = classes_before(task_idx + 1)
          /\ IF ~has_previous_trainer
             THEN /\ tensors' = heap2
                  /\ pc' = "ready"
                  /\ UNCHANGED <<weights_prev, fisher, mse_grad>>
             ELSE /\ weights_prev' = snap.ref
                  /\ LET r == select_importance(config.reg_strategy, snap.heap)
                     IN
                       IF r.raised
                       THEN /\ tensors' = snap.heap
                            /\ pc' = "failed"
                            /\ UNCHANGED <<fisher, mse_grad>>
                       ELSE /\ tensors' = (<<"trainer", r.field>> :> r.value) @@ snap.heap
                            /\ pc' = "ready"
                            /\ fisher' = IF r.field = "fisher"
                                         THEN <<"trainer", "fisher">> ELSE fisher
                            /\ mse_grad' = IF r.field = "mse_grad"
                                           THEN <<"trainer", "mse_grad">> ELSE mse_grad
    /\ UNCHANGED <<task_idx, config, optim, num_iters_done, num_epochs_done,
                   train_dataloader, batch_log>>

----------------------------------------------------------------------------
(* LatGMTaskTrainer: one batch *)

\* firelab's Config.has(name): whether the option is set
has(cfg, name) == name \in DOMAIN cfg

\* float(b) of a Python bool
bool_as_number(b) == IF b THEN 1 ELSE 0

\* clip_grad_norm_(parameters, max_norm): returns the norm BEFORE clipping and
\* scales the gradient down to max_norm when it is larger
clip_grad_norm_(norm, max_norm) ==
    [total_norm |-> norm, clipped |-> Min(norm, max_norm)]

\* optimizer.step() on a parameter group whose gradient is g in every entry
\* (the groups of LatGM hold one entry, so that g is the gradient's norm)
optimizer_step(v, g) == [i \in 1..Len(v) |-> v[i] - g]

\* st: [heap, calls, distill, crashed]; g: the gradient norm backward() leaves
perform_optim_step(st, g, module_name) ==
    LET configured == has(config.grad_clipping, module_name)
        grad_clip_val == bool_as_number(has(config.grad_clipping, module_name))
        r == clip_grad_norm_(g, grad_clip_val)
        stepped == IF configured THEN r.clipped ELSE g
        written == IF configured THEN <<r.total_norm>> ELSE <<>>
    IN [st EXCEPT !.heap[optim[module_name]] = optimizer_step(@, stepped),
                  !.calls = Append(@, [name |-> module_name, grad_norm |-> g,
                                       stepped_norm |-> stepped, written |-> written])]

gen_knowledge_distillation_loss(learned, distill_batch_size) ==
    IF Cardinality(learned) = 0
    THEN [outcome |-> "zero", num_samples |-> 0]
    ELSE LET num_samples_per_class == distill_batch_size \div Cardinality(learned)
         IN IF ~(num_samples_per_class >= 0)
            THEN [outcome |-> "AssertionError", num_samples |-> 0]
            ELSE [outcome |-> IF num_samples_per_class = 0 THEN "nan" ELSE "loss",
                  num_samples |-> num_samples_per_class * Cardinality(learned)]

\* variant: the generator is not throttled
generator_step_unthrottled(st, g) ==
    IF st.crashed THEN st
    ELSE LET d == gen_knowledge_distillation_loss(learned_classes, config.distill_batch_size)
         IN IF d.outcome = "AssertionError"
            THEN [st EXCEPT !.distill = d, !.crashed = TRUE]
            ELSE perform_optim_step([st EXCEPT !.distill = d], g, "generator")

generator_step(st, g) ==
    IF st.crashed THEN st
    ELSE IF num_iters_done % config.num_discr_steps_per_gen_step # 0 THEN st
    ELSE LET d == gen_knowledge_distillation_loss(learned_classes, config.distill_batch_size)
         IN IF d.outcome = "AssertionError"
            THEN [st EXCEPT !.distill = d, !.crashed = TRUE]
            ELSE perform_optim_step([st EXCEPT !.distill = d], g, "generator")

discriminator_step(st, g) ==
    IF st.crashed THEN st ELSE perform_optim_step(st, g, "discriminator")

\* variant: the classifier loss also steps the embedder
classifier_step_with_embedder(st, g) ==
    IF st.crashed THEN st
    ELSE perform_optim_step(perform_optim_step(st, g, "classifier"), g, "embedder")

classifier_step(st, g) ==
    IF st.crashed THEN st ELSE perform_optim_step(st, g, "classifier")

\* variant: the discriminator is updated before the generator
gan_phase_discriminator_first(st, g_gen, g_discr) ==
    generator_step(discriminator_step(st, g_discr), g_gen)

\* the GAN branch of train_on_batch
gan_phase(st, g_gen, g_discr) == discriminator_step(generator_step(st, g_gen), g_discr)

is_gan_phase == num_epochs_done < config.num_gan_epochs

LatGM_train_on_batch ==
    /\ pc = "ready"
    /\ \E g1 \in train_dataloader.grad_norms, g2 \in train_dataloader.grad_norms :
         LET st0 == [heap |-> tensors, calls |-> <<>>, distill |-> NoBatch.distill,
                     crashed |-> FALSE]
             st == IF is_gan_phase THEN gan_phase(st0, g1, g2)
                   ELSE classifier_step(st0, g1)
         IN /\ tensors' = st.heap
            /\ pc' = IF st.crashed THEN "crashed" ELSE "ready"
            /\ batch_log' = [iter |-> num_iters_done, gan |-> is_gan_phase,
                             calls |-> st.calls, distill |-> st.distill,
                             before |-> [id \in DOMAIN InitTensors |-> tensors[id]]]
    /\ UNCHANGED <<task_idx, config, optim, learned_classes, seen_classes,
                   weights_prev, fisher, mse_grad, num_epochs_done, train_dataloader>>

\* the training loop of TaskTrainer: one batch, then the iteration counter
RunBatchGM ==
    /\ num_iters_done < MaxIters
    /\ LatGM_train_on_batch
    /\ num_iters_done' = num_iters_done + 1

\* the training loop of TaskTrainer: the end of an epoch
EpochDone ==
    /\ pc = "ready"
    /\ num_epochs_done < MaxGanEpochs
    /\ num_epochs_done' = num_epochs_done + 1
    /\ UNCHANGED <<task_idx, config, pc, tensors, optim, learned_classes, seen_classes,
                   weights_prev, fisher, mse_grad, num_iters_done, train_dataloader,
                   batch_log>>

NextGM == LatGM_after_init_hook \/ RunBatchGM \/ EpochDone

Spec == InitGM /\ [][NextGM]_vars

----------------------------------------------------------------------------
(* EWCTaskTrainer *)

\* the storage of model.parameters(), flattened: the body, then the head
EWCParams == <<"model", "parameters">>

\* fisher_keep_prob = num / den, in (0, 1]
EWCConfigs == [fisher_keep_prob : [num : 1..KeepDen, den : {KeepDen}]]

\* model.get_head_size()
get_head_size == HeadSize

\* Python's v[:-k] and v[-k:]
slice_until_last(v, k) == IF k = 0 THEN <<>> ELSE SubSeq(v, 1, Len(v) - k)

slice_last(v, k) == IF k = 0 THEN v ELSE SubSeq(v, Len(v) - k + 1, Len(v))

\* a number as the fraction <<numerator, denominator>>
whole(n) == <<n, 1>>

\* F.dropout(input, p) with p = p_num / p_den < 1, training=True: an element
\* is zeroed (the positions in `zeroed`) with probability p, and scaled by
\* 1 / (1 - p) otherwise
dropout(v, p_num, p_den, zeroed) ==
    [i \in 1..Len(v) |-> IF i \in zeroed THEN whole(0) ELSE <<v[i] * p_den, p_den - p_num>>]

\* the importance vector compute_regularization puts into torch.dot
thinned_fisher(heap, zeroed) ==
    LET head_size == get_head_size
        keep_prob == config.fisher_keep_prob
        f == heap[fisher]
    IN IF keep_prob.num < keep_prob.den
       THEN LET body_fisher == dropout(slice_until_last(f, head_size),
                                       keep_prob.num, keep_prob.den, zeroed)
                head_fisher == slice_last(f, head_size)
            IN body_fisher \o [i \in 1..Len(head_fisher) |-> whole(head_fisher[i])]
       ELSE [i \in 1..Len(f) |-> whole(f[i])]

\* sum of d[i]^2 * w[i] over the fractions w, which share the denominator den
\* or have denominator 1
RECURSIVE dot_num(_, _, _, _)
dot_num(cur, prev, w, den) ==
    IF w = <<>> THEN 0
    ELSE (cur[1] - prev[1]) * (cur[1] - prev[1]) * Head(w)[1] * (den \div Head(w)[2])
         + dot_num(Tail(cur), Tail(prev), Tail(w), den)

compute_regularization(heap, zeroed) ==
    LET weights_curr == concat(heap, <<EWCParams>>)
        used == thinned_fisher(heap, zeroed)
        den == IF config.fisher_keep_prob.num < config.fisher_keep_prob.den
               THEN config.fisher_keep_prob.den - config.fisher_keep_prob.num ELSE 1
    IN [fisher |-> used, reg |-> <<dot_num(weights_curr, heap[weights_prev], used, den), den>>]

NoReg == [fisher |-> <<>>, reg |-> whole(0)]

NoBatchEWC == [iter |-> -1, regularization |-> NoReg, before |-> <<>>]

InitEWC ==
    /\ task_idx \in 0..MaxTask
    /\ config \in EWCConfigs
    /\ train_dataloader \in [grad_norms : {{1}},
                             sample_grads : [1..(BodySize + HeadSize) -> 0..MaxSampleGrad]]
    /\ pc = "init"
    /\ tensors = (EWCParams :> [i \in 1..(BodySize + HeadSize) |-> 0])
    /\ optim = [parameters |-> EWCParams]
    /\ learned_classes = {}
    /\ seen_classes = {}
    /\ weights_prev = NoTensor
    /\ fisher = NoTensor
    /\ mse_grad = NoTensor
    /\ num_iters_done = 0
    /\ num_epochs_done = 0
    /\ batch_log = NoBatchEWC

EWC_after_init_hook ==
    /\ pc = "init"
    /\ pc' = "ready"
    /\ IF task_idx > 0
       THEN LET v == compute_diagonal_fisher(tensors, <<EWCParams>>, train_dataloader)
                 heap1 == (<<"trainer", "fisher">> :> v) @@ tensors
                 snap == torch_cat(heap1, <<EWCParams>>, <<"trainer", "weights_prev">>)
            IN /\ fisher' = <<"trainer", "fisher">>
               /\ weights_prev' = snap.ref
               /\ tensors' = snap.heap
       ELSE UNCHANGED <<tensors, fisher, weights_prev>>
    /\ UNCHANGED <<task_idx, config, optim, learned_classes, seen_classes, mse_grad,
                   num_iters_done, num_epochs_done, train_dataloader, batch_log>>

EWC_train_on_batch ==
    /\ pc = "ready"
    /\ \E g \in train_dataloader.grad_norms, zeroed \in SUBSET (1..BodySize) :
         /\ batch_log' = [iter |-> num_iters_done,
                          regularization |-> IF task_idx > 0
                                             THEN compute_regularization(tensors, zeroed)
                                             ELSE NoReg,
                          before |-> tensors[EWCParams]]
         /\ tensors' = [tensors EXCEPT ![optim.parameters] = optimizer_step(@, g)]
    /\ UNCHANGED <<task_idx, config, pc, optim, learned_classes, seen_classes,
                   weights_prev, fisher, mse_grad, num_epochs_done, train_dataloader>>

RunBatchEWC ==
    /\ num_iters_done < MaxIters
    /\ EWC_train_on_batch
    /\ num_iters_done' = num_iters_done + 1

NextEWC == EWC_after_init_hook \/ RunBatchEWC

SpecEWC == InitEWC /\ [][NextEWC]_vars

----------------------------------------------------------------------------
(* Properties of LatGMTaskTrainer, under Spec *)

CallNames == {batch_log.calls[i].name : i \in 1..Len(batch_log.calls)}

CallCount(name) == Cardinality({i \in 1..Len(batch_log.calls) : batch_log.calls[i].name = name})

BatchDone == batch_log.iter >= 0

\* C1: whenever gen_knowledge_distillation_loss runs with a non-empty set of
\* learned classes and distill_batch_size // len(learned_classes) = 0, it
\* fails its assertion and computes no loss over zero samples per class.
C1_TooSmallDistillBatchAsserts ==
    (/\ BatchDone
     /\ batch_log.distill.outcome # "not_called"
     /\ learned_classes # {}
     /\ config.distill_batch_size \div Cardinality(learned_classes) = 0)
    => batch_log.distill.outcome = "AssertionError"

\* C2 as stated: for every task index, an unknown reg_strategy makes the
\* initialization hook raise, so the trainer never processes a batch.
C2_UnknownStrategyFailsForAnyTask ==
    config.reg_strategy \notin {"ewc", "mas"}
    => (pc \in {"init", "failed"} /\ num_iters_done = 0 /\ batch_log = NoBatch)

\* C2 amended: for a trainer that has a previous trainer (task index > 0), an
\* unknown reg_strategy makes the initialization hook raise, so the trainer
\* never processes a batch; the hook of the first task raises for no
\* strategy name.
C2_UnknownStrategyFailsForSubsequentTask ==
    /\ (task_idx > 0 /\ config.reg_strategy \notin {"ewc", "mas"})
          => (pc \in {"init", "failed"} /\ num_iters_done = 0 /\ batch_log = NoBatch)
    /\ task_idx = 0 => pc # "failed"

C2_Witness ==
    task_idx > 0 /\ config.reg_strategy \notin {"ewc", "mas"} /\ pc = "failed"

\* C4: perform_optim_step clips the gradient norm to the configured threshold
\* of the sub-network when there is one, clips nothing when there is none,
\* and in both cases records the gradient norm and steps the named optimizer.
C4_ClipsToConfiguredThreshold ==
    \A i \in 1..Len(batch_log.calls) :
       LET c == batch_log.calls[i]
       IN /\ c.name \in DOMAIN config.grad_clipping
               => c.stepped_norm = Min(c.grad_norm, config.grad_clipping[c.name])
          /\ c.name \notin DOMAIN config.grad_clipping => c.stepped_norm = c.grad_norm
          /\ c.written # <<>>
          /\ tensors[GM(c.name)] # batch_log.before[GM(c.name)]

\* C5: a GAN-phase batch steps the discriminator exactly once, the generator
\* exactly once when num_iters_done % num_discr_steps_per_gen_step = 0 and not
\* at all otherwise, and neither the classifier nor the embedder.
C5_GanBatchSteps ==
    (BatchDone /\ batch_log.gan)
    => /\ CallCount("discriminator") = 1
       /\ CallCount("generator") =
             (IF batch_log.iter % config.num_discr_steps_per_gen_step = 0 THEN 1 ELSE 0)
       /\ CallCount("classifier") = 0
       /\ CallCount("embedder") = 0

C5_Witness ==
    /\ BatchDone /\ batch_log.gan
    /\ config.num_discr_steps_per_gen_step >= 2
    /\ batch_log.iter = config.num_discr_steps_per_gen_step
    /\ CallCount("generator") = 1

\* C6: after any sequence of batches the parameters of prev_model equal the
\* values copied at initialization: no optimizer owns a parameter of
\* prev_model, and a batch changes only the live partitions it stepped.
C6_TeacherFrozen ==
    pc \in {"ready", "crashed", "failed"}
    => /\ \A m \in Modules : tensors[PREV(m)] = InitTensors[GM(m)]
       /\ \A name \in Modules : optim[name] = GM(name)
       /\ BatchDone => \A m \in Modules :
                          tensors[GM(m)] # batch_log.before[GM(m)] => m \in CallNames

C6_Witness ==
    /\ pc = "ready" /\ task_idx > 0
    /\ batch_log.iter >= 1 /\ ~batch_log.gan
    /\ tensors[GM("generator")] # InitTensors[GM("generator")]
    /\ tensors[GM("classifier")] # batch_log.before[GM("classifier")]

\* C8 as stated: in a GAN-phase batch that updates both sub-networks, the
\* discriminator step comes first and the generator step second.
C8_DiscriminatorThenGenerator ==
    (BatchDone /\ batch_log.gan /\ CallNames = {"generator", "discriminator"})
    => (batch_log.calls[1].name = "discriminator" /\ batch_log.calls[2].name = "generator")

\* C8 amended: in a GAN-phase batch that updates both sub-networks, the
\* generator step comes first and the discriminator step second, one after
\* the other; the discriminator update never precedes the generator update.
C8_GeneratorThenDiscriminator ==
    (BatchDone /\ batch_log.gan /\ CallNames = {"generator", "discriminator"})
    => /\ Len(batch_log.calls) = 2
       /\ batch_log.calls[1].name = "generator"
       /\ batch_log.calls[2].name = "discriminator"

C8_Witness ==
    /\ BatchDone /\ batch_log.gan
    /\ CallNames = {"generator", "discriminator"}
    /\ tensors[GM("generator")] # batch_log.before[GM("generator")]
    /\ tensors[GM("discriminator")] # batch_log.before[GM("discriminator")]

\* C9: for a subsequent task, after the initialization hook exactly one of
\* fisher and mse_grad is stored, and it has the length of weights_prev, the
\* flattened parameters of the embedder.
C9_ImportanceOverEmbedderOnly ==
    (pc = "ready" /\ task_idx > 0)
    => /\ (fisher = NoTensor) # (mse_grad = NoTensor)
       /\ fisher # NoTensor => Len(tensors[fisher]) = Len(tensors[weights_prev])
       /\ mse_grad # NoTensor => Len(tensors[mse_grad]) = Len(tensors[weights_prev])

\* C10: no batch steps the 'embedder' optimizer: a GAN-phase batch steps only
\* 'generator' and 'discriminator', a classifier-phase batch only
\* 'classifier', and the embedder's parameters keep their initial values.
C10_EmbedderNeverStepped ==
    /\ tensors[GM("embedder")] = InitTensors[GM("embedder")]
    /\ optim["embedder"] = GM("embedder")
    /\ BatchDone =>
          IF batch_log.gan THEN CallNames \subseteq {"generator", "discriminator"}
          ELSE CallNames = {"classifier"}

C10_Witness ==
    /\ batch_log.iter >= 1 /\ ~batch_log.gan
    /\ CallNames = {"classifier"}
    /\ tensors[GM("discriminator")] # InitTensors[GM("discriminator")]
    /\ tensors[GM("classifier")] # batch_log.before[GM("classifier")]

----------------------------------------------------------------------------
(* Properties of EWCTaskTrainer, under SpecEWC *)

Thinning == config.fisher_keep_prob.num < config.fisher_keep_prob.den

\* C3: with 0 < fisher_keep_prob = k < 1, every body importance weight that
\* enters the dot product is zero or the stored Fisher value scaled by 1/k,
\* and every head importance weight enters unchanged.
C3_BodyScaledByInverseKeepProb ==
    (BatchDone /\ task_idx > 0 /\ Thinning)
    => LET used == batch_log.regularization.fisher
           f == tensors[fisher]
           k == config.fisher_keep_prob
       IN \A i \in 1..Len(f) :
             IF i <= Len(f) - get_head_size
             THEN \/ used[i][1] = 0
                  \/ used[i][1] * k.num = f[i] * k.den * used[i][2]
             ELSE used[i] = whole(f[i])

\* C7: for task index > 0, weights_prev is a copy of the parameters as they
\* were when the initialization hook ran: it is not the live storage, it
\* keeps those values over any number of batches, and so does fisher.
C7_SnapshotFrozen ==
    /\ [](pc = "ready" /\ task_idx > 0
            => /\ weights_prev # EWCParams
               /\ tensors[weights_prev] = [i \in 1..(BodySize + HeadSize) |-> 0])
    /\ [][pc = "ready" /\ task_idx > 0
            => /\ tensors'[weights_prev] = tensors[weights_prev]
               /\ tensors'[fisher] = tensors[fisher]
               /\ weights_prev' = weights_prev /\ fisher' = fisher]_vars

C7_Witness ==
    /\ pc = "ready" /\ task_idx > 0
    /\ num_iters_done >= 2
    /\ \A i \in 1..(BodySize + HeadSize) : tensors[EWCParams][i] # 0

====
